---- MODULE Spec2Model ----
(***************************************************************************)
(* A model of yar ("Yet Another Router", src/router.go): registration of   *)
(* routes (HandleFunc), dispatch (Router.ServeHTTP), the variable carrier  *)
(* (ParameterRoute.ServeHTTP) and the read-back helper (Parse).            *)
(*                                                                         *)
(* A Go string is modelled as a sequence of one-character strings, so that *)
(* lengths, substring replacement, regular-expression matching and query   *)
(* encoding are computed on the text itself.                               *)
(***************************************************************************)
EXTENDS Integers, Sequences, FiniteSets, TLC

(***************************************************************************)
(* Characters and their byte values (ASCII).                               *)
(***************************************************************************)
CharCodes ==
    { <<"\n", 10>>, <<" ", 32>>, <<"$", 36>>, <<"%", 37>>, <<"&", 38>>, <<"(", 40>>,
      <<")", 41>>, <<"*", 42>>, <<"+", 43>>, <<"-", 45>>, <<".", 46>>,
      <<"/", 47>>, <<"0", 48>>, <<"1", 49>>, <<"2", 50>>, <<"3", 51>>,
      <<"4", 52>>, <<"5", 53>>, <<"6", 54>>, <<"7", 55>>, <<"8", 56>>,
      <<"9", 57>>, <<"<", 60>>, <<"=", 61>>, <<">", 62>>, <<"?", 63>>,
      <<"A", 65>>, <<"B", 66>>, <<"C", 67>>, <<"D", 68>>, <<"E", 69>>,
      <<"F", 70>>, <<"[", 91>>, <<"\\", 92>>, <<"]", 93>>, <<"^", 94>>,
      <<"_", 95>>, <<"a", 97>>, <<"b", 98>>, <<"c", 99>>,
      <<"d", 100>>, <<"e", 101>>, <<"i", 105>>, <<"k", 107>>, <<"n", 110>>,
      <<"p", 112>>, <<"u", 117>>, <<"x", 120>>, <<"y", 121>>, <<"z", 122>>,
      <<"|", 124>>, <<"{", 123>>, <<"}", 125>>, <<"~", 126>> }

OrdTable == [c \in {p[1] : p \in CharCodes} |-> (CHOOSE p \in CharCodes : p[1] = c)[2]]

Ord(c) == OrdTable[c]

Chr(n) == (CHOOSE p \in CharCodes : p[2] = n)[1]

(***************************************************************************)
(* The two expressions of the source, as text.                             *)
(***************************************************************************)
\* "<([A-z0-9_]*?)>"
ParamRegex ==
    << "<", "(", "[", "A", "-", "z", "0", "-", "9", "_", "]", "*", "?", ")", ">" >>

\* ParamMatch as one or more of any character, lazily: "(.+?)"
ParamMatchAnyChar == << "(", ".", "+", "?", ")" >>

\* "([A-z0-9_].*?)"
ParamMatch ==
    << "(", "[", "A", "-", "z", "0", "-", "9", "_", "]", ".", "*", "?", ")" >>

(***************************************************************************)
(* The regexp package, for the syntax the routes of this model use:        *)
(* literal characters, ".", bracket expressions with ranges, quantifiers   *)
(* * + ? and their lazy forms on one-character atoms, capturing groups     *)
(* without a quantifier, ^ and $.  Matching is leftmost-first: the first   *)
(* start position that matches, and from it the first match in the order   *)
(* a backtracking search prefers (greedy: longer first, lazy: shorter      *)
(* first).                                                                 *)
(***************************************************************************)
\* what "." matches: every code point but the line feed
AnyChar == {<<0, 9>>, <<11, 1114111>>}

QuantAt(src, n) ==
    IF n <= Len(src) /\ src[n] \in {"*", "+", "?"}
    THEN IF n + 1 <= Len(src) /\ src[n + 1] = "?"
         THEN [q |-> src[n], lazy |-> TRUE, len |-> 2]
         ELSE [q |-> src[n], lazy |-> FALSE, len |-> 1]
    ELSE [q |-> "1", lazy |-> FALSE, len |-> 0]

RECURSIVE ClassRanges(_, _, _)
ClassRanges(src, i, j) ==
    IF i > j THEN {}
    ELSE IF i + 2 <= j /\ src[i + 1] = "-"
         THEN {<<Ord(src[i]), Ord(src[i + 2])>>} \cup ClassRanges(src, i + 3, j)
         ELSE {<<Ord(src[i]), Ord(src[i])>>} \cup ClassRanges(src, i + 1, j)

\* the position of the "]" that closes the bracket expression opened at i
ClassEnd(src, i) ==
    CHOOSE j \in (i + 2)..Len(src) :
        /\ src[j] = "]"
        /\ \A m \in (i + 2)..(j - 1) : src[m] # "]"

Mark(kind) ==
    [t |-> kind, rs |-> {}, neg |-> FALSE, q |-> "1", lazy |-> FALSE]

Atom(ranges, negated, qt) ==
    [t |-> "set", rs |-> ranges, neg |-> negated, q |-> qt.q, lazy |-> qt.lazy]

RECURSIVE ParseFrom(_, _)
ParseFrom(src, i) ==
    IF i > Len(src) THEN << >>
    ELSE LET c == src[i] IN
         CASE c = "(" -> <<Mark("open")>> \o ParseFrom(src, i + 1)
           [] c = ")" -> <<Mark("close")>> \o ParseFrom(src, i + 1)
           [] c = "^" -> <<Mark("bol")>> \o ParseFrom(src, i + 1)
           [] c = "$" -> <<Mark("eol")>> \o ParseFrom(src, i + 1)
           [] c = "[" ->
                LET neg  == src[i + 1] = "^"
                    e    == ClassEnd(src, IF neg THEN i + 1 ELSE i)
                    body == ClassRanges(src, IF neg THEN i + 2 ELSE i + 1, e - 1)
                    qt   == QuantAt(src, e + 1)
                IN  <<Atom(body, neg, qt)>> \o ParseFrom(src, e + 1 + qt.len)
           [] c = "." ->
                LET qt == QuantAt(src, i + 1)
                IN  <<Atom(AnyChar, FALSE, qt)>>
                        \o ParseFrom(src, i + 1 + qt.len)
           [] c = "\\" ->
                LET qt == QuantAt(src, i + 2)
                IN  <<Atom({<<Ord(src[i + 1]), Ord(src[i + 1])>>}, FALSE, qt)>>
                        \o ParseFrom(src, i + 2 + qt.len)
           [] OTHER ->
                LET qt == QuantAt(src, i + 1)
                IN  <<Atom({<<Ord(c), Ord(c)>>}, FALSE, qt)>>
                        \o ParseFrom(src, i + 1 + qt.len)

\* regexp.MustCompile: the program of a source text
Compile(src) == ParseFrom(src, 1)

InSet(c, it) ==
    LET n == Ord(c) IN (\E r \in it.rs : r[1] <= n /\ n <= r[2]) # it.neg

NoMatch == [ok |-> FALSE, start |-> 0, end |-> 0, caps |-> << >>]

\* close the innermost group that is still open
CloseLast(caps, j) ==
    LET g == CHOOSE n \in 1..Len(caps) :
                 /\ caps[n][2] = 0
                 /\ \A m \in (n + 1)..Len(caps) : caps[m][2] # 0
    IN  [caps EXCEPT ![g] = <<caps[g][1], j>>]

\* the preferred match when there is one, else the other
OrElse(preferred, other) == IF preferred.ok THEN preferred ELSE other

RECURSIVE MatchItems(_, _, _, _, _, _), Repeat(_, _, _, _, _, _, _)
MatchItems(items, k, text, s, j, caps) ==
    IF k > Len(items) THEN [ok |-> TRUE, start |-> s, end |-> j, caps |-> caps]
    ELSE LET it == items[k] IN
         CASE it.t = "open" ->
                MatchItems(items, k + 1, text, s, j, Append(caps, <<j, 0>>))
           [] it.t = "close" ->
                MatchItems(items, k + 1, text, s, j, CloseLast(caps, j))
           [] it.t = "bol" ->
                IF j = 1 THEN MatchItems(items, k + 1, text, s, j, caps) ELSE NoMatch
           [] it.t = "eol" ->
                IF j = Len(text) + 1
                THEN MatchItems(items, k + 1, text, s, j, caps) ELSE NoMatch
           [] OTHER -> Repeat(items, k, text, s, j, caps, 0)

\* item k has consumed n characters and stands at position j
Repeat(items, k, text, s, j, caps, n) ==
    LET it   == items[k]
        stop == IF n >= (IF it.q \in {"1", "+"} THEN 1 ELSE 0)
                THEN MatchItems(items, k + 1, text, s, j, caps)
                ELSE NoMatch
        more == IF /\ (it.q \in {"*", "+"} \/ n = 0)
                   /\ j <= Len(text)
                   /\ InSet(text[j], it)
                THEN Repeat(items, k, text, s, j + 1, caps, n + 1)
                ELSE NoMatch
    IN  IF it.lazy THEN OrElse(stop, more) ELSE OrElse(more, stop)

RECURSIVE FindFrom(_, _, _)
\* the leftmost match of the program in text that starts at from or later
FindFrom(items, text, from) ==
    IF from > Len(text) + 1 THEN NoMatch
    ELSE OrElse(MatchItems(items, 1, text, from, from, << >>),
                FindFrom(items, text, from + 1))

\* MatchString that holds only of a match of the whole text
MatchStringWhole(src, text) ==
    FindFrom(Compile(<<"^">> \o src \o <<"$">>), text, 1).ok

\* Regexp.MatchString
MatchString(src, text) == FindFrom(Compile(src), text, 1).ok

\* the text of match m followed by the texts of its groups; nil (no
\* element) when there is no match
Submatches(m, text) ==
    IF ~m.ok THEN << >>
    ELSE <<SubSeq(text, m.start, m.end - 1)>>
         \o [g \in 1..Len(m.caps) |-> SubSeq(text, m.caps[g][1], m.caps[g][2] - 1)]

FindStringSubmatch(src, text) == Submatches(FindFrom(Compile(src), text, 1), text)

RECURSIVE FindAllFrom(_, _, _), ThisAndRest(_, _, _)
\* the successive matches that do not overlap, from position from on
FindAllFrom(items, text, from) == ThisAndRest(FindFrom(items, text, from), items, text)

ThisAndRest(m, items, text) ==
    IF ~m.ok THEN << >>
    ELSE <<SubSeq(text, m.start, m.end - 1)>>
         \o FindAllFrom(items, text, IF m.end > m.start THEN m.end ELSE m.end + 1)

\* Regexp.FindAllString(s, -1)
FindAllString(src, text) == FindAllFrom(Compile(src), text, 1)

(***************************************************************************)
(* The strings package.                                                    *)
(***************************************************************************)
HasPrefixAt(s, old, i) ==
    /\ i + Len(old) - 1 <= Len(s)
    /\ \A n \in 1..Len(old) : s[i + n - 1] = old[n]

\* strings.Index, 1-based; 0 when old does not occur in s
Index(s, old) ==
    IF \E i \in 1..(Len(s) + 1) : HasPrefixAt(s, old, i)
    THEN CHOOSE i \in 1..(Len(s) + 1) :
             /\ HasPrefixAt(s, old, i)
             /\ \A m \in 1..(i - 1) : ~HasPrefixAt(s, old, m)
    ELSE 0

\* strings.Replace(s, old, new, 1)
ReplaceAt(s, i, n, new) ==
    IF i = 0 THEN s ELSE SubSeq(s, 1, i - 1) \o new \o SubSeq(s, i + n, Len(s))

ReplaceFirst(s, old, new) == ReplaceAt(s, Index(s, old), Len(old), new)

HasSuffix(s, suffix) ==
    /\ Len(suffix) <= Len(s)
    /\ SubSeq(s, Len(s) - Len(suffix) + 1, Len(s)) = suffix

TrimSuffix(s, suffix) ==
    IF HasSuffix(s, suffix) THEN SubSeq(s, 1, Len(s) - Len(suffix)) ELSE s

\* the characters regexp.QuoteMeta escapes
SpecialChars ==
    {"\\", ".", "+", "*", "?", "(", ")", "|", "[", "]", "{", "}", "^", "$"}

RECURSIVE QuoteMeta(_)
QuoteMeta(s) ==
    IF s = << >> THEN << >>
    ELSE (IF Head(s) \in SpecialChars THEN <<"\\", Head(s)>> ELSE <<Head(s)>>)
             \o QuoteMeta(Tail(s))

\* byte-wise order of two strings (sort.Strings)
RECURSIVE StrLess(_, _)
StrLess(a, b) ==
    IF b = << >> THEN FALSE
    ELSE IF a = << >> THEN TRUE
    ELSE IF Ord(Head(a)) # Ord(Head(b)) THEN Ord(Head(a)) < Ord(Head(b))
    ELSE StrLess(Tail(a), Tail(b))

(***************************************************************************)
(* net/url: url.Values (a map from key to the list of its values),         *)
(* Values.Encode, QueryEscape and ParseQuery.                              *)
(***************************************************************************)
NoValues == [k \in {} |-> << >>]

\* Values.Add
Add(vals, k, v) ==
    IF k \in DOMAIN vals THEN [vals EXCEPT ![k] = Append(@, v)]
    ELSE [x \in (DOMAIN vals) \cup {k} |-> IF x = k THEN <<v>> ELSE vals[x]]

HexDigits ==
    <<"0", "1", "2", "3", "4", "5", "6", "7", "8", "9", "A", "B", "C", "D", "E", "F">>

\* letters, digits and - _ . ~ are written as they are
Unreserved(c) ==
    \/ (65 <= Ord(c) /\ Ord(c) <= 90)
    \/ (97 <= Ord(c) /\ Ord(c) <= 122)
    \/ (48 <= Ord(c) /\ Ord(c) <= 57)
    \/ c \in {"-", "_", ".", "~"}

RECURSIVE QueryEscape(_)
QueryEscape(s) ==
    IF s = << >> THEN << >>
    ELSE LET c == Head(s)
         IN  (IF Unreserved(c) THEN <<c>>
              ELSE IF c = " " THEN <<"+">>
              ELSE <<"%", HexDigits[(Ord(c) \div 16) + 1], HexDigits[(Ord(c) % 16) + 1]>>)
                 \o QueryEscape(Tail(s))

IsHex(c) ==
    \/ (48 <= Ord(c) /\ Ord(c) <= 57)
    \/ (65 <= Ord(c) /\ Ord(c) <= 70)
    \/ (97 <= Ord(c) /\ Ord(c) <= 102)

UnHex(c) ==
    IF Ord(c) <= 57 THEN Ord(c) - 48
    ELSE IF Ord(c) <= 70 THEN Ord(c) - 55 ELSE Ord(c) - 87

\* a "%" that two hexadecimal digits do not follow makes the text invalid
RECURSIVE ValidEscapes(_)
ValidEscapes(s) ==
    IF s = << >> THEN TRUE
    ELSE IF Head(s) = "%"
         THEN /\ Len(s) >= 3
              /\ IsHex(s[2])
              /\ IsHex(s[3])
              /\ ValidEscapes(SubSeq(s, 4, Len(s)))
         ELSE ValidEscapes(Tail(s))

RECURSIVE QueryUnescape(_)
QueryUnescape(s) ==
    IF s = << >> THEN << >>
    ELSE IF Head(s) = "%"
         THEN <<Chr(16 * UnHex(s[2]) + UnHex(s[3]))>> \o QueryUnescape(SubSeq(s, 4, Len(s)))
         ELSE <<IF Head(s) = "+" THEN " " ELSE Head(s)>> \o QueryUnescape(Tail(s))

\* the keys of vals in ascending order
RECURSIVE SortedKeys(_)
SortedKeys(keys) ==
    IF keys = {} THEN << >>
    ELSE LET k == CHOOSE x \in keys : \A y \in keys \ {x} : StrLess(x, y)
         IN  <<k>> \o SortedKeys(keys \ {k})

RECURSIVE EncodeKey(_, _, _)
EncodeKey(k, vs, first) ==
    IF vs = << >> THEN << >>
    ELSE (IF first THEN << >> ELSE <<"&">>)
             \o QueryEscape(k) \o <<"=">> \o QueryEscape(Head(vs))
             \o EncodeKey(k, Tail(vs), FALSE)

RECURSIVE EncodeKeys(_, _, _)
EncodeKeys(vals, keys, first) ==
    IF keys = << >> THEN << >>
    ELSE LET part == EncodeKey(Head(keys), vals[Head(keys)], first)
         IN  part \o EncodeKeys(vals, Tail(keys), first /\ part = << >>)

\* Values.Encode: "k=v&k=v2&l=w", sorted by key
Encode(vals) == EncodeKeys(vals, SortedKeys(DOMAIN vals), TRUE)

\* strings.Cut: the text before the first sep and the text after it
CutAt(s, i) ==
    IF i = 0 THEN [before |-> s, after |-> << >>]
    ELSE [before |-> SubSeq(s, 1, i - 1), after |-> SubSeq(s, i + 1, Len(s))]

Cut(s, sep) == CutAt(s, Index(s, <<sep>>))

\* one "key=value" of a query: left out when it is empty or cannot be unescaped
AddPair(vals, segment, pair) ==
    IF segment = << >> \/ ~ValidEscapes(pair.before) \/ ~ValidEscapes(pair.after)
    THEN vals
    ELSE Add(vals, QueryUnescape(pair.before), QueryUnescape(pair.after))

RECURSIVE ParseQueryInto(_, _), ParseSegment(_, _)
\* url.ParseQuery, adding to vals
ParseQueryInto(vals, query) ==
    IF query = << >> THEN vals ELSE ParseSegment(vals, Cut(query, "&"))

ParseSegment(vals, seg) ==
    ParseQueryInto(AddPair(vals, seg.before, Cut(seg.before, "=")), seg.after)

ParseQuery(query) == ParseQueryInto(NoValues, query)

(***************************************************************************)
(* Handlers.  A handler value is either a function of the caller, known    *)
(* by its name, or the method value pr.ServeHTTP of a ParameterRoute,      *)
(* which carries the wrapped function, the variable names and the matcher. *)
(***************************************************************************)
\* a http.HandlerFunc of the caller
UserFunc(name) ==
    [name |-> name, carrier |-> FALSE, VarNames |-> << >>, Regexp |-> << >>]

\* ParameterRoute{f, varNames, regexp}.ServeHTTP
ParameterRoute(f, varNames, regexp) ==
    [name |-> f.name, carrier |-> TRUE, VarNames |-> varNames, Regexp |-> regexp]

\* Route{re, f}
Route(pattern, f) == [Pattern |-> pattern, Func |-> f]

(***************************************************************************)
(* sort.Sort(rtr.Routes).  Routes.Less orders by descending length of the  *)
(* pattern text.  sort.Sort is not a stable sort; the implementations of   *)
(* the standard library sort a short slice by insertion sort, and the      *)
(* releases with the Shell pass run one pass with gap 6 before it when     *)
(* the slice has 7 to 12 elements.  SortOutcomes is the set of results of  *)
(* these implementations.                                                  *)
(***************************************************************************)
\* Less with the comparison turned round: shortest first
LessAscending(r, i, j) == Len(r[i].Pattern) < Len(r[j].Pattern)

Less(r, i, j) == Len(r[i].Pattern) > Len(r[j].Pattern)

Swap(r, i, j) == [r EXCEPT ![i] = r[j], ![j] = r[i]]

RECURSIVE Sink(_, _)
Sink(r, j) ==
    IF j > 1 /\ Less(r, j, j - 1) THEN Sink(Swap(r, j, j - 1), j - 1) ELSE r

RECURSIVE InsertionSort(_, _)
InsertionSort(r, i) ==
    IF i > Len(r) THEN r ELSE InsertionSort(Sink(r, i), i + 1)

RECURSIVE ShellPass(_, _)
ShellPass(r, i) ==
    IF i > Len(r) THEN r
    ELSE ShellPass(IF Less(r, i, i - 6) THEN Swap(r, i, i - 6) ELSE r, i + 1)

SortOutcomes(r) == {InsertionSort(r, 2), InsertionSort(ShellPass(r, 7), 2)}

(***************************************************************************)
(* Registration.  Each operation yields the set of its possible results:   *)
(* the two partitions of the table and the error value it returns.         *)
(***************************************************************************)
KeyExists == "Key exists"

\* addFixedRoute that stores the handler before it looks for the key
addFixedRouteOverwrite(fixed, routes, pattern, f) ==
    {[FixedRoutes |-> [k \in (DOMAIN fixed) \cup {pattern} |->
                          IF k = pattern THEN f ELSE fixed[k]],
      Routes |-> routes,
      err |-> IF pattern \in DOMAIN fixed THEN KeyExists ELSE "nil"]}

addFixedRoute(fixed, routes, pattern, f) ==
    IF pattern \in DOMAIN fixed
    THEN {[FixedRoutes |-> fixed, Routes |-> routes, err |-> KeyExists]}
    ELSE {[FixedRoutes |-> [k \in (DOMAIN fixed) \cup {pattern} |->
                               IF k = pattern THEN f ELSE fixed[k]],
           Routes |-> routes, err |-> "nil"]}

\* addRoute without the loop that looks for the source in the list
addRouteNoLookup(fixed, routes, pattern, f) ==
    {[FixedRoutes |-> fixed, Routes |-> sorted, err |-> "nil"] :
        sorted \in SortOutcomes(Append(routes, Route(pattern, f)))}

addRoute(fixed, routes, pattern, f) ==
    IF \E i \in 1..Len(routes) : routes[i].Pattern = pattern
    THEN {[FixedRoutes |-> fixed, Routes |-> routes, err |-> KeyExists]}
    ELSE {[FixedRoutes |-> fixed, Routes |-> sorted, err |-> "nil"] :
             sorted \in SortOutcomes(Append(routes, Route(pattern, f)))}

RECURSIVE ReplaceVars(_, _)
\* the loop of addProcessedParameterRoute over vars: the new pattern
ReplaceVars(newPattern, vars) ==
    IF vars = << >> THEN newPattern
    ELSE ReplaceVars(ReplaceFirst(newPattern, Head(vars), ParamMatch), Tail(vars))

\* StripBrackets that keeps the closing bracket: vn[1:]
StripBracketsKeepClosing(vars) ==
    [i \in 1..Len(vars) |-> SubSeq(vars[i], 2, Len(vars[i]))]

\* vn[1:len(vn)-1] of every vn: the names without < and >
StripBrackets(vars) ==
    [i \in 1..Len(vars) |-> SubSeq(vars[i], 2, Len(vars[i]) - 1)]

\* addCarrier that puts the new carrier in the place of a route with the
\* same source before it reports the duplicate
addCarrierLastWins(fixed, routes, f, varNames, newPattern) ==
    IF \E i \in 1..Len(routes) : routes[i].Pattern = newPattern
    THEN {[FixedRoutes |-> fixed,
           Routes |-> [i \in 1..Len(routes) |->
                          IF routes[i].Pattern = newPattern
                          THEN Route(newPattern, ParameterRoute(f, varNames, newPattern))
                          ELSE routes[i]],
           err |-> KeyExists]}
    ELSE addRoute(fixed, routes, newPattern, ParameterRoute(f, varNames, newPattern))

\* the last two statements of addProcessedParameterRoute
addCarrier(fixed, routes, f, varNames, newPattern) ==
    addRoute(fixed, routes, newPattern, ParameterRoute(f, varNames, newPattern))

addProcessedVars(fixed, routes, pattern, f, vars) ==
    addCarrier(fixed, routes, f, StripBrackets(vars), ReplaceVars(pattern, vars))

addProcessedParameterRoute(fixed, routes, pattern, f) ==
    addProcessedVars(fixed, routes, pattern, f, FindAllString(ParamRegex, pattern))

\* HandleFunc that tests the declaration for metacharacters whatever
\* CheckRegexp is
HandleFuncAlwaysChecks(fixed, routes, checkRegexp, pattern, f) ==
    IF Len(FindAllString(ParamRegex, pattern)) > 0
    THEN addProcessedParameterRoute(fixed, routes, pattern, f)
    ELSE IF QuoteMeta(pattern) = pattern
         THEN addFixedRoute(fixed, routes, pattern, f)
         ELSE addRoute(fixed, routes, pattern, f)

\* Router.HandleFunc: the results of the registration it delegates to
HandleFuncResults(fixed, routes, checkRegexp, pattern, f) ==
    IF Len(FindAllString(ParamRegex, pattern)) > 0
    THEN addProcessedParameterRoute(fixed, routes, pattern, f)
    ELSE IF checkRegexp
         THEN IF QuoteMeta(pattern) = pattern
              THEN addFixedRoute(fixed, routes, pattern, f)
              ELSE addRoute(fixed, routes, pattern, f)
         ELSE addFixedRoute(fixed, routes, pattern, f)

(***************************************************************************)
(* Requests and the functions that serve them.  A request is its path,     *)
(* its raw query and its form body (empty for a GET).  A served request    *)
(* is described by what ran: the functions of the caller that were called, *)
(* whether the goroutine panicked, and what the called function saw.       *)
(***************************************************************************)
Request(path, rawQuery, body) == [Path |-> path, RawQuery |-> rawQuery, Body |-> body]

\* Request.ParseForm: the values of the body first, then those of the query
ParseForm(r) == ParseQueryInto(ParseQuery(r.Body), r.RawQuery)

\* the removal append(values[:i], values[i+1:]...)
RemoveAt(values, i) == SubSeq(values, 1, i - 1) \o SubSeq(values, i + 1, Len(values))

\* the inner loop of Parse: the values without the first one equal to mk
RemoveFirst(values, mk) ==
    RemoveAt(values, CHOOSE i \in 1..Len(values) :
                         /\ values[i] = mk
                         /\ \A n \in 1..(i - 1) : values[n] # mk)

\* for a key of m: is form[k] set by the loop of Parse
FormSetsKey(m, k, values) ==
    Len(m[k]) > 1 /\ \E i \in 1..Len(values) : values[i] = m[k]

\* the first loop of Parse: m[k] = v[0]
FirstValues(query) == [k \in DOMAIN query |-> query[k][1]]

\* the second loop of Parse, over r.Form
FormOf(m, Form) ==
    [k \in {x \in DOMAIN Form : x \notin DOMAIN m \/ FormSetsKey(m, x, Form[x])} |->
        IF k \notin DOMAIN m THEN Form[k] ELSE RemoveFirst(Form[k], m[k])]

ParseMaps(m, Form) == [m |-> m, form |-> FormOf(m, Form)]

\* Parse: the two maps it returns
Parse(r) == ParseMaps(FirstValues(ParseQuery(r.RawQuery)), ParseForm(r))

Served(calls, panicked, r, vars) ==
    [calls |-> calls, panicked |-> panicked, seen |-> r, vars |-> vars,
     parsed |-> IF calls = << >> THEN [m |-> NoValues, form |-> NoValues] ELSE Parse(r)]

\* a function of the caller: it reads the request and calls Parse
CallUser(name, r) == Served(<<name>>, FALSE, r, << >>)

RECURSIVE AddVars(_, _, _, _)
\* the loop form.Add(vn, vars[i])
AddVars(form, varNames, vars, i) ==
    IF i > Len(varNames) THEN form
    ELSE AddVars(Add(form, varNames[i], vars[i]), varNames, vars, i + 1)

\* r.URL.RawQuery = form.Encode() + "&" + r.URL.RawQuery
CarriedRequest(pr, r, vars) ==
    [r EXCEPT !.RawQuery = Encode(AddVars(NoValues, pr.VarNames, vars, 1))
                               \o <<"&">> \o r.RawQuery]

\* the request with the values carried, and then pr.Func(w, r)
CarryVars(pr, r, vars) == Served(<<pr.name>>, FALSE, CarriedRequest(pr, r, vars), vars)

\* sub[1:] panics when sub is nil, vars[i] when there are fewer values than names
ServeSubmatch(pr, r, sub) ==
    IF sub = << >> \/ Len(sub) - 1 < Len(pr.VarNames)
    THEN Served(<< >>, TRUE, r, << >>)
    ELSE CarryVars(pr, r, Tail(sub))

\* ParameterRoute.ServeHTTP
ParameterRouteServeHTTP(pr, r) ==
    ServeSubmatch(pr, r, FindStringSubmatch(pr.Regexp, r.Path))

\* calling a handler value
Call(f, r) ==
    IF f.carrier THEN ParameterRouteServeHTTP(f, r) ELSE CallUser(f.name, r)

\* LookupPath without the test len(path) > 1
LookupPathAnyLength(strip, path) ==
    IF strip /\ HasSuffix(path, <<"/">>) THEN TrimSuffix(path, <<"/">>) ELSE path

\* the path Router.ServeHTTP looks up
LookupPath(strip, path) ==
    IF strip /\ Len(path) > 1 /\ HasSuffix(path, <<"/">>)
    THEN TrimSuffix(path, <<"/">>)
    ELSE path

RECURSIVE FirstMatch(_, _, _)
\* the loop over rtr.Routes: the index of the first route that matches, or 0
FirstMatch(routes, path, i) ==
    IF i > Len(routes) THEN 0
    ELSE IF MatchString(routes[i].Pattern, path) THEN i
    ELSE FirstMatch(routes, path, i + 1)

\* the route at index i of the pattern list, or the not-found handler
RouteOrNotFound(routes, notFound, i) ==
    IF i > 0 THEN [from |-> "routes", index |-> i, f |-> routes[i].Func]
    ELSE [from |-> "notfound", index |-> 0, f |-> notFound]

\* Select that scans the pattern list before it looks in the literal table
SelectRoutesFirst(fixed, routes, notFound, path) ==
    IF FirstMatch(routes, path, 1) = 0 /\ path \in DOMAIN fixed
    THEN [from |-> "fixed", index |-> 0, f |-> fixed[path]]
    ELSE RouteOrNotFound(routes, notFound, FirstMatch(routes, path, 1))

\* Router.ServeHTTP: the handler value it calls, and the partition it came from
Select(fixed, routes, notFound, path) ==
    IF path \in DOMAIN fixed
    THEN [from |-> "fixed", index |-> 0, f |-> fixed[path]]
    ELSE RouteOrNotFound(routes, notFound, FirstMatch(routes, path, 1))

(***************************************************************************)
(* The inputs.  Three families of declarations, paths and queries are      *)
(* explored; scn names the family of a behaviour and never changes.        *)
(***************************************************************************)
\* literal and plain-pattern declarations
\*   /
\*   /a
\*   /a.*
\*   /.*a
\*   /a/b$
RouteDecls ==
    { <<"/">>,
      <<"/", "a">>,
      <<"/", "a", ".", "*">>,
      <<"/", ".", "*", "a">>,
      <<"/", "a", "/", "b", "$">> }

\* request paths for them
\*   /
\*   /a
\*   /a/
\*   /a//
\*   /a/b
\*   /b
RoutePaths ==
    { <<"/">>,
      <<"/", "a">>,
      <<"/", "a", "/">>,
      <<"/", "a", "/", "/">>,
      <<"/", "a", "/", "b">>,
      <<"/", "b">> }

\* declarations with variable tokens, and a literal
\*   /<k>$
\*   /<k>x$
\*   /<k>/<k>$
\*   /<a>/<k>
\*   /ab
VarDecls ==
    { <<"/", "<", "k", ">", "$">>,
      <<"/", "<", "k", ">", "x", "$">>,
      <<"/", "<", "k", ">", "/", "<", "k", ">", "$">>,
      <<"/", "<", "a", ">", "/", "<", "k", ">">>,
      <<"/", "a", "b">> }

\* request paths for them
\*   /a
\*   /ab
\*   /ax
\*   /ax/
\*   /ab/c
VarPaths ==
    { <<"/", "a">>,
      <<"/", "a", "b">>,
      <<"/", "a", "x">>,
      <<"/", "a", "x", "/">>,
      <<"/", "a", "b", "/", "c">> }

\* raw queries already in the request
\*   (empty)
\*   k=b
\*   k=b&k=cd&a=bc
VarQueries ==
    { <<>>,
      <<"k", "=", "b">>,
      <<"k", "=", "b", "&", "k", "=", "c", "d", "&", "a", "=", "b", "c">> }

\* form bodies (none for a GET)
\*   (empty)
\*   k=c&n=d
VarBodies ==
    { <<>>,
      <<"k", "=", "c", "&", "n", "=", "d">> }

\* plain patterns, six of one length, each matching every path that holds a /
\*   /a*
\*   /b*
\*   /c*
\*   /d*
\*   /e*
\*   /x*
\*   /.*$
TieDecls ==
    { <<"/", "a", "*">>,
      <<"/", "b", "*">>,
      <<"/", "c", "*">>,
      <<"/", "d", "*">>,
      <<"/", "e", "*">>,
      <<"/", "x", "*">>,
      <<"/", ".", "*", "$">> }

\* request paths for them
\*   /
\*   /b
TiePaths ==
    { <<"/">>,
      <<"/", "b">> }

\* declarations with a token and syntax of their own around it
\*   /<k>$
\*   /<n>$
\*   /(a)/<k>$
\*   /<^>
MixedDecls ==
    { <<"/", "<", "k", ">", "$">>,
      <<"/", "<", "n", ">", "$">>,
      <<"/", "(", "a", ")", "/", "<", "k", ">", "$">>,
      <<"/", "<", "^", ">">> }

\* request paths for them
\*   /
\*   /a
\*   /-a
\*   /.a
\*   /a/b
\*   /a and a line feed
MixedPaths ==
    { <<"/">>,
      <<"/", "a", "\n">>,
      <<"/", "a">>,
      <<"/", "-", "a">>,
      <<"/", ".", "a">>,
      <<"/", "a", "/", "b">> }

\* declarations for requests served at the same time
\*   /<k>$
\*   /<a>/<k>
\*   /ab
ConcDecls ==
    { <<"/", "<", "k", ">", "$">>,
      <<"/", "<", "a", ">", "/", "<", "k", ">">>,
      <<"/", "a", "b">> }

\* request paths for them
\*   /a
\*   /b/c/
ConcPaths ==
    { <<"/", "a">>,
      <<"/", "b", "/", "c", "/">> }

\* raw queries already in these requests
\*   (empty)
\*   k=b
ConcQueries ==
    { <<>>,
      <<"k", "=", "b">> }

Decls(s) ==
    CASE s = "routes" -> RouteDecls [] s = "vars" -> VarDecls [] s = "ties" -> TieDecls
      [] s = "mixed" -> MixedDecls [] s = "conc" -> ConcDecls

Paths(s) ==
    CASE s = "routes" -> RoutePaths [] s = "vars" -> VarPaths [] s = "ties" -> TiePaths
      [] s = "mixed" -> MixedPaths [] s = "conc" -> ConcPaths

Queries(s) == IF s = "vars" THEN VarQueries ELSE IF s = "conc" THEN ConcQueries ELSE {<< >>}

Bodies(s) == IF s = "vars" THEN VarBodies ELSE {<< >>}

\* the functions the caller registers
Handlers(s) == IF s \in {"ties", "conc"} THEN {"h1"} ELSE {"h1", "h2"}

\* the not-found functions: the default of NewRouter and one of the caller
NotFoundFuncs(s) ==
    IF s \in {"routes", "mixed"} THEN {"http.NotFound", "notFound"} ELSE {"http.NotFound"}

\* the values given to CheckRegexp: it decides nothing about a declaration
\* with variable tokens
CheckRegexpValues(s) == IF s = "ties" THEN {TRUE} ELSE BOOLEAN

\* the number of routes a table of the first two families holds at most
MaxRoutes == 3

\* the number of routes a table of the third family holds at most
MaxTieRoutes == 7

RouteLimit(s) == IF s = "ties" THEN MaxTieRoutes ELSE MaxRoutes

\* the number of requests the server serves at the same time at most
MaxFlights == 2

(***************************************************************************)
(* The state: the fields of the Router, and last, the call that has just   *)
(* run with what it did; Return ends it and the caller goes on.  The field *)
(* Log only adds a log line and is left out.  flight holds the requests    *)
(* that are being served at the same time (see SpecConc); it is empty      *)
(* where requests are served one after the other.                          *)
(***************************************************************************)
VARIABLES scn, FixedRoutes, Routes, Strip, CheckRegexp, NotFound, last, flight

vars == <<scn, FixedRoutes, Routes, Strip, CheckRegexp, NotFound, last, flight>>

Idle == [op |-> "idle"]

\* NewRouter
NewRouter ==
    /\ FixedRoutes = [k \in {} |-> UserFunc("")]
    /\ Routes = << >>
    /\ Strip = FALSE
    /\ CheckRegexp = TRUE
    /\ NotFound = UserFunc("http.NotFound")
    /\ last = Idle
    /\ flight = << >>

Init == scn \in {"routes", "vars"} /\ NewRouter

InitTies == scn = "ties" /\ NewRouter

TableSize == Cardinality(DOMAIN FixedRoutes) + Len(Routes)

\* rtr.HandleFunc(pattern, f).  HandleFunc has no result: the error value
\* of the registration it delegates to is dropped.
HandleFunc(pattern, name) ==
    /\ last = Idle
    /\ TableSize < RouteLimit(scn)
    /\ \E res \in HandleFuncResults(FixedRoutes, Routes, CheckRegexp, pattern, UserFunc(name)) :
          /\ FixedRoutes' = res.FixedRoutes
          /\ Routes' = res.Routes
          /\ last' = [op |-> "HandleFunc", pattern |-> pattern, name |-> name,
                      err |-> res.err, returned |-> << >>]
    /\ UNCHANGED <<scn, flight, Strip, CheckRegexp, NotFound>>

\* rtr.Strip = b
SetStrip(b) ==
    /\ last = Idle
    /\ Strip' = b
    /\ UNCHANGED <<scn, flight, last, FixedRoutes, Routes, CheckRegexp, NotFound>>

\* rtr.CheckRegexp = b
SetCheckRegexp(b) ==
    /\ last = Idle
    /\ CheckRegexp' = b
    /\ UNCHANGED <<scn, flight, last, FixedRoutes, Routes, Strip, NotFound>>

\* rtr.NotFound = f
SetNotFound(name) ==
    /\ last = Idle
    /\ NotFound' = UserFunc(name)
    /\ UNCHANGED <<scn, flight, last, FixedRoutes, Routes, Strip, CheckRegexp>>

\* what a dispatch did: the path looked up, the handler value called and
\* what that call did
Dispatched(r, lookup, sel, res) ==
    [op |-> "ServeHTTP", r |-> r, lookup |-> lookup,
     from |-> sel.from, index |-> sel.index, invoked |-> <<sel.f>>,
     calls |-> res.calls, panicked |-> res.panicked,
     seen |-> res.seen, vars |-> res.vars, parsed |-> res.parsed]

\* f(w, r), rr.Func(w, r) or rtr.NotFound(w, r), each followed by the return
CallSelected(r, lookup, sel) == Dispatched(r, lookup, sel, Call(sel.f, r))

LookUp(r, lookup) ==
    CallSelected(r, lookup, Select(FixedRoutes, Routes, NotFound, lookup))

\* list r with the element at index i moved to the front
MoveToFront(r, i) ==
    IF i = 0 THEN r
    ELSE <<r[i]>> \o SubSeq(r, 1, i - 1) \o SubSeq(r, i + 1, Len(r))

\* ServeHTTP that keeps the pattern route it has just matched at the front
\* of the list
ServeHTTPMoveToFront(path, rawQuery, body) ==
    /\ last = Idle
    /\ last' = LookUp(Request(path, rawQuery, body), LookupPath(Strip, path))
    /\ Routes' = MoveToFront(Routes, last'.index)
    /\ UNCHANGED <<scn, flight, FixedRoutes, Strip, CheckRegexp, NotFound>>

\* rtr.ServeHTTP(w, r)
ServeHTTP(path, rawQuery, body) ==
    /\ last = Idle
    /\ last' = LookUp(Request(path, rawQuery, body), LookupPath(Strip, path))
    /\ UNCHANGED <<scn, flight, FixedRoutes, Routes, Strip, CheckRegexp, NotFound>>

\* the call returns to the caller
Return ==
    /\ last # Idle
    /\ last' = Idle
    /\ UNCHANGED <<scn, flight, FixedRoutes, Routes, Strip, CheckRegexp, NotFound>>

Register == \E d \in Decls(scn), h \in Handlers(scn) : HandleFunc(d, h)

Configure ==
    \/ \E b \in BOOLEAN : SetStrip(b)
    \/ \E b \in CheckRegexpValues(scn) : SetCheckRegexp(b)
    \/ \E h \in NotFoundFuncs(scn) : SetNotFound(h)

Serve ==
    \E p \in Paths(scn), q \in Queries(scn), b \in Bodies(scn) : ServeHTTP(p, q, b)

Next == Register \/ Configure \/ Serve \/ Return

Spec == Init /\ [][Next]_vars

\* a router whose fields the caller leaves as NewRouter set them
NextTies == Register \/ Serve \/ Return

SpecTies == InitTies /\ [][NextTies]_vars

\* a router that is given the declarations of the fourth family
InitMixed == scn = "mixed" /\ NewRouter

SpecMixed == InitMixed /\ [][Next]_vars

(***************************************************************************)
(* Requests served at the same time.  net/http runs ServeHTTP of the       *)
(* router in a goroutine of its own for every request; flight holds the    *)
(* goroutines that are running, each with its position (pc) and with what  *)
(* its dispatch has done so far (out, which has the fields of last after a *)
(* dispatch).  A goroutine takes three steps: the lookup in Router.        *)
(* ServeHTTP, the carrier (when one was selected) and the function of the  *)
(* caller.  The table is registered into, and Strip set, only while no     *)
(* request is being served.                                                *)
(***************************************************************************)
\* a request that has reached Router.ServeHTTP
Accepted(r) ==
    [pc  |-> "router",
     out |-> [op |-> "ServeHTTP", r |-> r, lookup |-> << >>,
              from |-> "", index |-> 0, invoked |-> << >>,
              calls |-> << >>, panicked |-> FALSE,
              seen |-> r, vars |-> << >>,
              parsed |-> [m |-> NoValues, form |-> NoValues]]]

\* Router.ServeHTTP up to the call of the handler value it selects
Routed(g, lookup, sel) ==
    [pc  |-> IF sel.f.carrier THEN "carrier" ELSE "func",
     out |-> [g.out EXCEPT !.lookup = lookup, !.from = sel.from,
                           !.index = sel.index, !.invoked = <<sel.f>>]]

RoutedAt(g, lookup) == Routed(g, lookup, Select(FixedRoutes, Routes, NotFound, lookup))

\* ParameterRoute.ServeHTTP up to the call of pr.Func: it panics, or it
\* writes the values into the query of its own request
Carried(g, pr, sub) ==
    IF sub = << >> \/ Len(sub) - 1 < Len(pr.VarNames)
    THEN [pc |-> "done", out |-> [g.out EXCEPT !.panicked = TRUE]]
    ELSE [pc  |-> "func",
          out |-> [g.out EXCEPT !.vars = Tail(sub),
                                !.seen = CarriedRequest(pr, g.out.seen, Tail(sub))]]

CarriedBy(g, pr) == Carried(g, pr, FindStringSubmatch(pr.Regexp, g.out.seen.Path))

\* a carrier that keeps the submatches in a place all requests share: it
\* carries the values another request has left there
CarrierStepShared(fl, id) ==
    IF \E o \in (DOMAIN fl) \ {id} : fl[o].out.vars # << >>
    THEN [fl EXCEPT ![id] =
             Carried(fl[id], fl[id].out.invoked[1],
                     <<fl[id].out.seen.Path>>
                         \o fl[CHOOSE o \in (DOMAIN fl) \ {id} : fl[o].out.vars # << >>].out.vars)]
    ELSE [fl EXCEPT ![id] = CarriedBy(fl[id], fl[id].out.invoked[1])]

\* the goroutines after the carrier step of goroutine id
CarrierStepResult(fl, id) ==
    [fl EXCEPT ![id] = CarriedBy(fl[id], fl[id].out.invoked[1])]

\* the function of the caller: it reads its request and calls Parse
Ran(g) ==
    [pc  |-> "done",
     out |-> [g.out EXCEPT !.calls = <<g.out.invoked[1].name>>,
                           !.parsed = Parse(g.out.seen)]]

\* net/http starts a goroutine for a request
Accept(id, path, rawQuery) ==
    /\ last = Idle
    /\ id \notin DOMAIN flight
    /\ flight' = flight @@ (id :> Accepted(Request(path, rawQuery, << >>)))
    /\ UNCHANGED <<scn, FixedRoutes, Routes, Strip, CheckRegexp, NotFound, last>>

RouterStep(id) ==
    /\ id \in DOMAIN flight
    /\ flight[id].pc = "router"
    /\ flight' = [flight EXCEPT
                     ![id] = RoutedAt(flight[id], LookupPath(Strip, flight[id].out.r.Path))]
    /\ UNCHANGED <<scn, FixedRoutes, Routes, Strip, CheckRegexp, NotFound, last>>

CarrierStep(id) ==
    /\ id \in DOMAIN flight
    /\ flight[id].pc = "carrier"
    /\ flight' = CarrierStepResult(flight, id)
    /\ UNCHANGED <<scn, FixedRoutes, Routes, Strip, CheckRegexp, NotFound, last>>

FuncStep(id) ==
    /\ id \in DOMAIN flight
    /\ flight[id].pc = "func"
    /\ flight' = [flight EXCEPT ![id] = Ran(flight[id])]
    /\ UNCHANGED <<scn, FixedRoutes, Routes, Strip, CheckRegexp, NotFound, last>>

\* the goroutine ends
Finish(id) ==
    /\ id \in DOMAIN flight
    /\ flight[id].pc = "done"
    /\ flight' = [o \in (DOMAIN flight) \ {id} |-> flight[o]]
    /\ UNCHANGED <<scn, FixedRoutes, Routes, Strip, CheckRegexp, NotFound, last>>

\* the table is built, and Strip set, while no request is being served
Build == DOMAIN flight = {} /\ (Register \/ \E b \in BOOLEAN : SetStrip(b))

Begin == \E id \in 1..MaxFlights, p \in Paths(scn), q \in Queries(scn) : Accept(id, p, q)

Step == \E id \in 1..MaxFlights : RouterStep(id) \/ CarrierStep(id) \/ FuncStep(id)

End == \E id \in 1..MaxFlights : Finish(id)

NextConc == Build \/ Return \/ Begin \/ Step \/ End

InitConc == scn = "conc" /\ NewRouter

SpecConc == InitConc /\ [][NextConc]_vars

(***************************************************************************)
(* Properties.                                                             *)
(***************************************************************************)
Served1 == last.op = "ServeHTTP"

Registered1 == last.op = "HandleFunc"

\* the indices of the pattern routes whose matcher matches p
Matching(p) == {i \in 1..Len(Routes) : MatchString(Routes[i].Pattern, p)}

\* f is the function of the first of the routes with the indices ms, or
\* the not-found function when there is none
FirstOfOrNotFound(ms, f) ==
    IF ms # {}
    THEN \E i \in ms : (\A j \in ms : i <= j) /\ f = Routes[i].Func
    ELSE f = NotFound

\* f is the handler value the resolution order gives path p
Resolves(p, f) ==
    IF p \in DOMAIN FixedRoutes THEN f = FixedRoutes[p]
    ELSE FirstOfOrNotFound(Matching(p), f)

\* C1: a dispatch calls the handler of the literal that equals the looked-up
\* path, whatever patterns match too; otherwise the handler of the first
\* pattern route, in stored order, that matches; otherwise the not-found
\* handler, and then no handler of a registered route runs.
C1_ResolutionOrder ==
    Served1 =>
        /\ Len(last.invoked) = 1
        /\ Resolves(last.lookup, last.invoked[1])
        /\ (last.lookup \notin DOMAIN FixedRoutes /\ Matching(last.lookup) = {})
               => last.calls = <<NotFound.name>>

\* a literal was dispatched although a pattern route matches the path too
C1_Witness ==
    /\ Served1
    /\ last.from = "fixed"
    /\ Matching(last.lookup) # {}
    /\ last.calls = <<FixedRoutes[last.lookup].name>>

\* when ms, the indices of the routes that match, is not empty, the handler
\* value invoked is that of one of them that is as long as every other
LongestOf(ms, invoked) ==
    ms # {} =>
        \E i \in ms :
            /\ invoked = <<Routes[i].Func>>
            /\ \A j \in ms : Len(Routes[i].Pattern) >= Len(Routes[j].Pattern)

\* C2: when no literal matches, the handler called belongs to a pattern
\* route that matches the path and whose source is as long as the longest
\* source among the pattern routes that match.
C2_LongestFirst ==
    (Served1 /\ last.lookup \notin DOMAIN FixedRoutes) =>
        LongestOf(Matching(last.lookup), last.invoked)

\* the route called is longer than another route that matches the path
C2_Witness ==
    /\ Served1
    /\ last.from = "routes"
    /\ \E j \in Matching(last.lookup) :
           Len(Routes[j].Pattern) < Len(Routes[last.index].Pattern)

\* the text under which a declaration is stored in the pattern list
CompiledSource(d) == ReplaceVars(d, FindAllString(ParamRegex, d))

\* declaration d is already registered: as a literal, or as a pattern
AlreadyRegistered(d) ==
    IF FindAllString(ParamRegex, d) = << >> /\ (~CheckRegexp \/ QuoteMeta(d) = d)
    THEN d \in DOMAIN FixedRoutes
    ELSE \E i \in 1..Len(Routes) : Routes[i].Pattern = CompiledSource(d)

\* C3: registering what is already registered fails with the duplicate
\* error, and HandleFunc hands that error to its caller.
C3_DuplicateErrorReturned ==
    [][(last'.op = "HandleFunc" /\ AlreadyRegistered(last'.pattern))
          => (last'.err = KeyExists /\ last'.returned = <<KeyExists>>)]_vars

\* C4: a registration rejected as a duplicate changes neither the literal
\* table nor the pattern list.
C4_RejectedLeavesTable ==
    [][(last'.op = "HandleFunc" /\ last'.err # "nil")
          => (FixedRoutes' = FixedRoutes /\ Routes' = Routes)]_vars

\* a duplicate was rejected that came with another handler than the first
C4_Witness ==
    /\ Registered1
    /\ last.err = KeyExists
    /\ \/ /\ last.pattern \in DOMAIN FixedRoutes
          /\ FixedRoutes[last.pattern].name # last.name
       \/ \E i \in 1..Len(Routes) :
              /\ Routes[i].Pattern = CompiledSource(last.pattern)
              /\ Routes[i].Func.name # last.name

\* C5: every dispatch ends without a panic and runs exactly one function;
\* a carrier that is selected extracts one value for each variable name.
C5_NoFaultOneHandler ==
    Served1 =>
        /\ ~last.panicked
        /\ Len(last.calls) = 1
        /\ last.invoked[1].carrier => Len(last.vars) = Len(last.invoked[1].VarNames)

\* the path looked up, as the claim states it
Normalized(strip, path) ==
    IF strip /\ Len(path) > 1 /\ path[Len(path)] = "/"
    THEN [i \in 1..(Len(path) - 1) |-> path[i]]
    ELSE path

\* C6: with Strip a path longer than "/" that ends with "/" is matched
\* without that one "/", the root and every path without Strip are matched
\* as received, and the function that runs sees the path as received.
C6_TrailingSeparator ==
    Served1 =>
        /\ last.lookup = Normalized(Strip, last.r.Path)
        /\ Resolves(Normalized(Strip, last.r.Path), last.invoked[1])
        /\ last.calls # << >> => last.seen.Path = last.r.Path

\* /a/ was dispatched to the literal /a, whose function saw /a/
C6_Witness ==
    /\ Served1
    /\ Strip
    /\ last.from = "fixed"
    /\ last.lookup # last.r.Path
    /\ last.r.Path = last.lookup \o <<"/">>
    /\ last.seen.Path = last.r.Path

\* the position of the ">" that closes the token opened at the head of d
TokenEnd(d) ==
    CHOOSE j \in 2..Len(d) : d[j] = ">" /\ \A m \in 2..(j - 1) : d[m] # ">"

\* the names between < and > in declaration d, from left to right
RECURSIVE TokenNames(_)
TokenNames(d) ==
    IF d = << >> THEN << >>
    ELSE IF Head(d) = "<"
         THEN <<SubSeq(d, 2, TokenEnd(d) - 1)>>
                  \o TokenNames(SubSeq(d, TokenEnd(d) + 1, Len(d)))
         ELSE TokenNames(Tail(d))

\* declaration d with its i-th token replaced by texts[i]
RECURSIVE Fill(_, _)
Fill(d, texts) ==
    IF d = << >> THEN << >>
    ELSE IF Head(d) = "<"
         THEN Head(texts) \o Fill(SubSeq(d, TokenEnd(d) + 1, Len(d)), Tail(texts))
         ELSE <<Head(d)>> \o Fill(Tail(d), texts)

\* the matcher source of declaration d: every token replaced by the wildcard
Shape(d) == Fill(d, [i \in 1..Len(TokenNames(d)) |-> ParamMatch])

\* path fits declaration d with the given values in the place of its tokens
Fits(d, values, path) ==
    LET t == Fill(d, values)
    IN  IF t[Len(t)] = "$"
        THEN HasSuffix(path, SubSeq(t, 1, Len(t) - 1))
        ELSE Index(path, t) > 0

\* the values whose variable name is n, in the order of the names
RECURSIVE Picks(_, _, _)
Picks(names, values, n) ==
    IF names = << >> THEN << >>
    ELSE (IF Head(names) = n THEN <<Head(values)>> ELSE << >>)
             \o Picks(Tail(names), Tail(values), n)

ValuesOf(store, k) == IF k \in DOMAIN store THEN store[k] ELSE << >>

\* a carrier was selected and its wrapped function ran
CarrierRan == Served1 /\ last.invoked[1].carrier /\ last.calls # << >>

\* C7: a declaration with tokens is stored with the token names in
\* left-to-right order (repeated names included), and a dispatch through it
\* puts the i-th extracted value under the i-th name, ahead of the values
\* the request already had, before the wrapped function runs.
C7_VarNamesInOrder ==
    /\ (Registered1 /\ last.err = "nil" /\ TokenNames(last.pattern) # << >>) =>
           \E i \in 1..Len(Routes) :
               /\ Routes[i].Pattern = Shape(last.pattern)
               /\ Routes[i].Func.carrier
               /\ Routes[i].Func.name = last.name
               /\ Routes[i].Func.VarNames = TokenNames(last.pattern)
    /\ CarrierRan =>
           LET f     == last.invoked[1]
               store == ParseQuery(last.seen.RawQuery)
               old   == ParseQuery(last.r.RawQuery)
           IN  /\ Len(last.vars) = Len(f.VarNames)
               /\ \E d \in Decls(scn) :
                      /\ Shape(d) = f.Regexp
                      /\ TokenNames(d) = f.VarNames
                      /\ Fits(d, last.vars, last.r.Path)
               /\ \A i \in 1..Len(f.VarNames) :
                      ValuesOf(store, f.VarNames[i])
                          = Picks(f.VarNames, last.vars, f.VarNames[i])
                                \o ValuesOf(old, f.VarNames[i])

\* a declaration with one name twice was dispatched with two different values
C7_Witness ==
    /\ CarrierRan
    /\ Len(last.invoked[1].VarNames) = 2
    /\ last.invoked[1].VarNames[1] = last.invoked[1].VarNames[2]
    /\ last.vars[1] # last.vars[2]
    /\ last.r.RawQuery # << >>

\* C8: for a GET through a variable route, a key that holds one path value
\* p and the query values q1..qn (n >= 1) reads back as m[k] = p and
\* form[k] = <<q1, ..., qn>>, whatever the length of the values.
C8_MergeReadBack ==
    (CarrierRan /\ last.r.Body = << >>) =>
        LET f   == last.invoked[1]
            old == ParseQuery(last.r.RawQuery)
        IN  \A i \in 1..Len(f.VarNames) :
                (/\ f.VarNames[i] \in DOMAIN old
                 /\ \A j \in 1..Len(f.VarNames) : j # i => f.VarNames[j] # f.VarNames[i])
                => /\ f.VarNames[i] \in DOMAIN last.parsed.m
                   /\ last.parsed.m[f.VarNames[i]] = last.vars[i]
                   /\ f.VarNames[i] \in DOMAIN last.parsed.form
                   /\ last.parsed.form[f.VarNames[i]] = old[f.VarNames[i]]

\* C9: for a GET, form has a key exactly when the store holds more than
\* one value under it, and then holds the values after the first.
C9_MultiOnlyForRepeated ==
    (Served1 /\ last.calls # << >> /\ last.r.Body = << >>) =>
        LET store == ParseQuery(last.seen.RawQuery)
        IN  \A k \in (DOMAIN store) \cup (DOMAIN last.parsed.form) :
                /\ k \in DOMAIN last.parsed.form
                       <=> (k \in DOMAIN store /\ Len(store[k]) > 1)
                /\ k \in DOMAIN last.parsed.form
                       => last.parsed.form[k] = Tail(store[k])

\* the position in list r of the route with source p, 0 when there is none
Pos(r, p) ==
    IF \E i \in 1..Len(r) : r[i].Pattern = p
    THEN CHOOSE i \in 1..Len(r) : r[i].Pattern = p
    ELSE 0

\* a step keeps the registration order among the routes of one length: of
\* two such routes of the new list the first was in the list before, and
\* before the second when that one was in the list too
KeepsTieOrder(old, new) ==
    \A i, j \in 1..Len(new) :
        (i < j /\ Len(new[i].Pattern) = Len(new[j].Pattern)) =>
            /\ Pos(old, new[i].Pattern) # 0
            /\ Pos(old, new[j].Pattern) # 0
                   => Pos(old, new[i].Pattern) < Pos(old, new[j].Pattern)

\* C10: after every registration the pattern routes of one
\* length stand in the order of their registration.
C10_StableTies == [][KeepsTieOrder(Routes, Routes')]_vars

\* C11: a dispatch changes neither the literal table, nor the pattern list
\* or its order, nor the configuration, so the same request dispatched
\* again on the table it leaves behind selects the same handler.
C11_DispatchIdempotent ==
    [][last'.op = "ServeHTTP" =>
          /\ FixedRoutes' = FixedRoutes
          /\ Routes' = Routes
          /\ Strip' = Strip
          /\ CheckRegexp' = CheckRegexp
          /\ NotFound' = NotFound
          /\ Select(FixedRoutes', Routes', NotFound',
                    LookupPath(Strip', last'.r.Path)).f = last'.invoked[1]]_vars

\* a pattern route that is not the first of the list was dispatched
C11_Witness ==
    /\ Served1
    /\ last.from = "routes"
    /\ last.index > 1

\* C13: whatever registrations have run, accepted or rejected, the pattern
\* list is in the order of non-increasing source length and no two of its
\* entries have the same source.
C13_SortedNoDuplicate ==
    \A i, j \in 1..Len(Routes) :
        i < j => /\ Len(Routes[i].Pattern) >= Len(Routes[j].Pattern)
                 /\ Routes[i].Pattern # Routes[j].Pattern

\* a source already in a list of routes of several lengths was rejected
C13_Witness ==
    /\ Registered1
    /\ last.err = KeyExists
    /\ \E i \in 1..Len(Routes) : Routes[i].Pattern = CompiledSource(last.pattern)
    /\ \E i, j \in 1..Len(Routes) : Len(Routes[i].Pattern) > Len(Routes[j].Pattern)

\* the expression with source p matches text s from its first to its last
\* character
FullMatch(p, s) == MatchItems(Compile(p \o <<"$">>), 1, s, 1, 1, << >>).ok

\* some part of text s, proper or not, is matched in full
PartMatch(p, s) ==
    \E i \in 1..(Len(s) + 1) : \E j \in (i - 1)..Len(s) : FullMatch(p, SubSeq(s, i, j))

NoAnchor(p) == \A k \in 1..Len(p) : p[k] \notin {"^", "$"}

\* C14, as stated: a pattern route is selected for a path only if its
\* matcher matches the full path.
C14_FullPathOnly ==
    (Served1 /\ last.from = "routes") =>
        FullMatch(Routes[last.index].Pattern, last.lookup)

\* C14, amended: a pattern route is selected only if its matcher matches
\* some part of the path, and a match of a proper part is enough: when no
\* route is selected, no route without anchors matches any part of it.
C14_PartOfPathSelects ==
    Served1 =>
        /\ last.from = "routes" => PartMatch(Routes[last.index].Pattern, last.lookup)
        /\ last.from = "notfound" =>
               \A k \in 1..Len(Routes) :
                   NoAnchor(Routes[k].Pattern) => ~PartMatch(Routes[k].Pattern, last.lookup)

\* a route was selected whose matcher matches a proper part of the path only
C14_Witness ==
    /\ Served1
    /\ last.from = "routes"
    /\ ~FullMatch(Routes[last.index].Pattern, last.lookup)

\* declaration d holds a metacharacter of regular expressions
HasMeta(d) == \E k \in 1..Len(d) : d[k] \in SpecialChars

\* list new is list old with one more route, which has source p
OneMoreRoute(old, new, p) ==
    /\ Len(new) = Len(old) + 1
    /\ \E i \in 1..Len(new) :
           /\ new[i].Pattern = p
           /\ \A k \in 1..Len(old) : \E m \in (1..Len(new)) \ {i} : new[m] = old[k]

\* table new is table old with one more key, d, bound to f
OneMoreLiteral(old, new, d, f) ==
    /\ d \notin DOMAIN old
    /\ DOMAIN new = (DOMAIN old) \cup {d}
    /\ new[d] = f
    /\ \A k \in DOMAIN old : new[k] = old[k]

\* C17: an accepted registration changes one partition and leaves the
\* other as it is: a declaration without token goes to the literal table
\* under its own text when it has no metacharacter or CheckRegexp is off,
\* and to the pattern list otherwise; a declaration with tokens goes to
\* the pattern list.
C17_OnePartition ==
    [][(last'.op = "HandleFunc" /\ last'.err = "nil") =>
          IF TokenNames(last'.pattern) = << >>
             /\ (~CheckRegexp \/ ~HasMeta(last'.pattern))
          THEN /\ Routes' = Routes
               /\ OneMoreLiteral(FixedRoutes, FixedRoutes', last'.pattern,
                                 UserFunc(last'.name))
          ELSE /\ FixedRoutes' = FixedRoutes
               /\ OneMoreRoute(Routes, Routes', Shape(last'.pattern))
               /\ \A i \in 1..Len(Routes') :
                      Routes'[i].Pattern = Shape(last'.pattern) =>
                          /\ Routes'[i].Func.name = last'.name
                          /\ Routes'[i].Func.carrier
                                 <=> TokenNames(last'.pattern) # << >>]_vars

\* with CheckRegexp off a declaration with metacharacters became a literal
C17_Witness ==
    /\ Registered1
    /\ last.err = "nil"
    /\ ~CheckRegexp
    /\ HasMeta(last.pattern)
    /\ last.pattern \in DOMAIN FixedRoutes
    /\ Routes # << >>

\* the number of capturing groups of the expression with source src
GroupCount(src) ==
    Cardinality({k \in 1..Len(Compile(src)) : Compile(src)[k].t = "open"})

\* the numbers of the groups that stand for the tokens of declaration d,
\* opened being the number of groups opened before d
RECURSIVE TokenGroups(_, _)
TokenGroups(d, opened) ==
    IF d = << >> THEN << >>
    ELSE IF Head(d) = "<"
         THEN <<opened + 1>> \o TokenGroups(SubSeq(d, TokenEnd(d) + 1, Len(d)), opened + 1)
         ELSE TokenGroups(Tail(d), IF Head(d) = "(" THEN opened + 1 ELSE opened)

\* C15: the matcher of a declaration with tokens has as many capturing
\* groups as the declaration has tokens, its own groups included or not,
\* and the value delivered under the i-th name is the text matched by the
\* group put in the place of the i-th token.
C15_GroupPerVariable ==
    CarrierRan =>
        \A d \in Decls(scn) :
            (/\ CompiledSource(d) = last.invoked[1].Regexp
             /\ TokenNames(d) = last.invoked[1].VarNames)
            => /\ GroupCount(last.invoked[1].Regexp) = Len(last.invoked[1].VarNames)
               /\ \A i \in 1..Len(last.invoked[1].VarNames) :
                      last.vars[i] =
                          FindStringSubmatch(last.invoked[1].Regexp, last.r.Path)
                              [1 + TokenGroups(d, 0)[i]]

\* declaration d is "/", one token and "$"
OneToken(d) ==
    /\ Len(TokenNames(d)) = 1
    /\ d = <<"/", "<">> \o TokenNames(d)[1] \o <<">", "$">>

\* route i of the pattern list was compiled from such a declaration
OneTokenRoute(i) ==
    \E d \in Decls(scn) : OneToken(d) /\ CompiledSource(d) = Routes[i].Pattern

\* path p is "/" and one segment, the value
Segment(p) == Len(p) >= 1 /\ p[1] = "/" /\ \A k \in 2..Len(p) : p[k] # "/"

\* c is a character of [A-z0-9_]: from "A" to "z" in ASCII, a digit or "_"
StartsValue(c) ==
    \/ 65 <= Ord(c) /\ Ord(c) <= 122
    \/ 48 <= Ord(c) /\ Ord(c) <= 57
    \/ Ord(c) = 95

\* C16, as stated: a segment fits a placeholder exactly when its value is
\* not empty, whatever the first character, and the value extracted is
\* the segment.
C16_AnyValueFits ==
    (Served1 /\ Segment(last.lookup)) =>
        \A i \in 1..Len(Routes) :
            OneTokenRoute(i) =>
                /\ MatchString(Routes[i].Pattern, last.lookup)
                       <=> Tail(last.lookup) # << >>
                /\ (last.from = "routes" /\ last.index = i)
                       => last.vars = <<Tail(last.lookup)>>

\* C16, amended: a segment fits a placeholder exactly when its value is
\* not empty, begins with a character of [A-z0-9_] and holds no line feed,
\* and the value extracted is the segment.
C16_WordFirstFits ==
    (Served1 /\ Segment(last.lookup)) =>
        \A i \in 1..Len(Routes) :
            OneTokenRoute(i) =>
                /\ MatchString(Routes[i].Pattern, last.lookup)
                       <=> (/\ Tail(last.lookup) # << >>
                            /\ StartsValue(Head(Tail(last.lookup)))
                            /\ \A k \in 1..Len(last.lookup) : last.lookup[k] # "\n")
                /\ (last.from = "routes" /\ last.index = i)
                       => last.vars = <<Tail(last.lookup)>>

\* a value that begins with "-" found no route although a one-token
\* route is registered
C16_Witness ==
    /\ Served1
    /\ Segment(last.lookup)
    /\ Len(last.lookup) > 1
    /\ last.lookup[2] = "-"
    /\ last.from = "notfound"
    /\ \E i \in 1..Len(Routes) : OneTokenRoute(i)

\* c is a character of [A-Za-z0-9_]
WordChar(c) ==
    \/ 65 <= Ord(c) /\ Ord(c) <= 90
    \/ 97 <= Ord(c) /\ Ord(c) <= 122
    \/ 48 <= Ord(c) /\ Ord(c) <= 57
    \/ Ord(c) = 95

WordName(n) == \A k \in 1..Len(n) : WordChar(n[k])

\* C18: only a name made of characters of [A-Za-z0-9_] makes a variable:
\* every name a carrier holds is such a name, and a declaration whose
\* brackets enclose another character is stored under its own text, as a
\* literal or as a plain pattern.
C18_NameCharsOnly ==
    /\ \A i \in 1..Len(Routes) :
           Routes[i].Func.carrier =>
               \A n \in 1..Len(Routes[i].Func.VarNames) :
                   WordName(Routes[i].Func.VarNames[n])
    /\ (/\ Registered1
        /\ last.err = "nil"
        /\ \A n \in 1..Len(TokenNames(last.pattern)) :
               ~WordName(TokenNames(last.pattern)[n]))
       => \/ last.pattern \in DOMAIN FixedRoutes
          \/ \E i \in 1..Len(Routes) :
                 Routes[i].Pattern = last.pattern /\ ~Routes[i].Func.carrier

\* C19: a declaration with tokens whose matcher source is already in the
\* pattern list (it differs from the one registered before in the names of
\* its tokens at most) is rejected as a duplicate and leaves the table as
\* it is; a dispatch through a carrier runs the function of the single
\* route with that source, with the values under the names that route holds.
C19_SameShapeRejected ==
    [][/\ (/\ last'.op = "HandleFunc"
           /\ TokenNames(last'.pattern) # << >>
           /\ \E i \in 1..Len(Routes) : Routes[i].Pattern = Shape(last'.pattern))
          => /\ last'.err = KeyExists
             /\ Routes' = Routes
             /\ FixedRoutes' = FixedRoutes
       /\ (/\ last'.op = "ServeHTTP"
           /\ last'.invoked[1].carrier
           /\ last'.calls # << >>)
          => /\ Cardinality({i \in 1..Len(Routes) :
                                Routes[i].Pattern = last'.invoked[1].Regexp}) = 1
             /\ \A i \in 1..Len(Routes) :
                    Routes[i].Pattern = last'.invoked[1].Regexp
                    => /\ Routes[i].Func = last'.invoked[1]
                       /\ last'.calls = <<Routes[i].Func.name>>
                       /\ \A n \in 1..Len(Routes[i].Func.VarNames) :
                              /\ Routes[i].Func.VarNames[n]
                                     \in DOMAIN ParseQuery(last'.seen.RawQuery)
                              /\ last'.vars[n]
                                     = last'.parsed.m[Routes[i].Func.VarNames[n]]]_vars

\* a declaration was rejected that has the source of a registered route
\* but another token name and another function
C19_Witness ==
    /\ Registered1
    /\ last.err = KeyExists
    /\ \E i \in 1..Len(Routes) :
           /\ Routes[i].Pattern = Shape(last.pattern)
           /\ Routes[i].Func.carrier
           /\ Routes[i].Func.VarNames # TokenNames(last.pattern)
           /\ Routes[i].Func.name # last.name

\* C12: a step of a request that is being served changes no part of the
\* table or of the configuration and no other request; and a request that
\* is done, whatever the other requests did meanwhile, has selected the
\* handler, carried the values and read back the maps that the dispatch
\* of this request alone gives.
C12_DispatchesIsolated ==
    [][flight' # flight =>
          /\ FixedRoutes' = FixedRoutes
          /\ Routes' = Routes
          /\ Strip' = Strip
          /\ CheckRegexp' = CheckRegexp
          /\ NotFound' = NotFound
          /\ \E id \in 1..MaxFlights :
                 \A o \in ((DOMAIN flight) \cap (DOMAIN flight')) \ {id} :
                     flight'[o] = flight[o]
          /\ \A id \in DOMAIN flight' :
                 flight'[id].pc = "done" =>
                     flight'[id].out = LookUp(flight'[id].out.r,
                                              LookupPath(Strip, flight'[id].out.r.Path))]_vars

\* two requests in flight, both through a carrier, with different values:
\* one is done and the other has its values carried and waits for its
\* function
C12_Witness ==
    \E a, b \in DOMAIN flight :
        /\ flight[a].pc = "done"
        /\ flight[b].pc = "func"
        /\ flight[a].out.vars # << >>
        /\ flight[b].out.vars # << >>
        /\ flight[a].out.vars # flight[b].out.vars
        /\ flight[a].out.calls # << >>

====
